---- MODULE Spec2Model ----
(***************************************************************************)
(* StudioNavi: the multi-studio availability aggregation of the frontend   *)
(* (useStudioAvailability / processBatch / fetchStudioAvailability and the *)
(* response interceptor of apiClient), as a state machine.                 *)
(***************************************************************************)
EXTENDS Integers, Sequences, FiniteSets, TLC

(***************************************************************************)
(* Bounds of the model.                                                    *)
(***************************************************************************)
\* runs (executions of the effect) of one mounted hook in a behaviour
MaxRuns == 2
\* a run after the first starts only while all the runs together make no more
\* than MaxRequests requests (the first run takes any list)
MaxRequests == 3
\* slots in the list given to formatTimeRanges
MaxSlots == 3
\* the largest batch size of the builds with a batch size above 1
MaxBatch == 2
\* options of the start and end time selects that are picked (of 25)
MaxTimes == 3
\* options of the duration select that are picked (of 5)
MaxDurations == 2
\* days that are picked in the calendar
MaxDates == 2
\* searches the search box sends in a behaviour
MaxFetches == 2
\* width of the window in which the JS Numbers of the model are held:
\* IntBits bits before and FracBits bits after the binary point
IntBits == 10
FracBits == 54

(***************************************************************************)
(* Program constants.                                                      *)
(***************************************************************************)
BATCH_SIZE == 1
FETCH_DELAY == 200
\* the caller never selects more than 5 studios (App.tsx addStudio)
MaxStudios == 5
\* significand precision of a JS Number (IEEE-754 binary64)
MantBits == 53
\* parseInt of a missing or non-numeric string; unequal to every studio id
NaN == -1

(***************************************************************************)
(* JS Number arithmetic on the values the progress takes: a value is its   *)
(* binary expansion, most significant bit first, IntBits + FracBits long.  *)
(* Every double in [2^(MantBits - 1 - FracBits), 2^IntBits) is exact here, *)
(* and an operation rounds to MantBits significant bits, ties to even.     *)
(***************************************************************************)
Width == IntBits + FracBits

NumZero == [i \in 1..Width |-> 0]

\* the natural k < 2^IntBits as a JS Number
NumOfNat(k) ==
    [i \in 1..Width |-> IF i <= IntBits THEN (k \div 2^(IntBits - i)) % 2 ELSE 0]

\* the element of a one-element set
The(S) == CHOOSE v \in S : TRUE

\* index of the leading 1 bit (Width + 1 for zero)
Lead(b) ==
    IF \E i \in 1..Width : b[i] = 1
    THEN CHOOSE i \in 1..Width : b[i] = 1 /\ \A j \in 1..(i - 1) : b[j] = 0
    ELSE Width + 1

\* whether a + b carries into bit i: the nearest lower bit that does not just
\* pass a carry on produces one
CarryInto(a, b, i) ==
    \E j \in (i + 1)..Width :
        a[j] + b[j] = 2 /\ \A k \in (i + 1)..(j - 1) : a[k] + b[k] = 1

\* the exact sum; the carry out of the window is dropped (the values of the
\* model stay below 2^IntBits)
ExactAdd(a, b) ==
    [i \in 1..Width |-> (a[i] + b[i] + (IF CarryInto(a, b, i) THEN 1 ELSE 0)) % 2]
        \o << >>

\* b cut after bit last, rounded to nearest, ties to even; sticky says that a
\* nonzero rest lies below the window
RoundAt(b, last, sticky) ==
    IF last >= Width THEN b
    ELSE IF b[last + 1] = 1
            /\ (sticky \/ b[last] = 1 \/ \E i \in (last + 2)..Width : b[i] = 1)
         THEN ExactAdd([i \in 1..Width |-> IF i <= last THEN b[i] ELSE 0],
                       [i \in 1..Width |-> IF i = last THEN 1 ELSE 0])
         ELSE [i \in 1..Width |-> IF i <= last THEN b[i] ELSE 0]

\* round the exact value b to MantBits significant bits
RoundNum(b, sticky) ==
    The({ RoundAt(v[1], v[2], sticky) :
              v \in { << x, Lead(x) + MantBits - 1 >> : x \in {b} } })

\* prev + x of JS Numbers
NumAdd(a, b) == RoundNum(ExactAdd(a, b), FALSE)

RECURSIVE DivRange(_, _, _, _, _)
\* long division of the bits lo..hi of n by d with the remainder r carried in:
\* the quotient bits lo..hi followed by the remainder carried out
DivRange(n, d, lo, hi, r) ==
    IF lo = hi
    THEN LET t == 2 * r + n[lo]
             q == IF t >= d THEN 1 ELSE 0
         IN  << q, t - q * d >>
    ELSE LET mid    == (lo + hi) \div 2
             first  == DivRange(n, d, lo, mid, r)
             second == DivRange(n, d, mid + 1, hi, first[Len(first)])
         IN  SubSeq(first, 1, Len(first) - 1) \o second

\* k / d of JS Numbers, for naturals k and d > 0
NumDiv(k, d) ==
    LET qr == DivRange(NumOfNat(k), d, 1, Width, 0)
    IN  RoundNum(SubSeq(qr, 1, Width), qr[Width + 1] # 0)

(***************************************************************************)
(* Messages and codes of the source. The source's Japanese literals are    *)
(* written here by their English meaning; each is a distinct token.        *)
(***************************************************************************)
\* apiClient.ts:123 fallback of an error response without a message
MSG_SERVER_ERROR == "server error occurred"
\* apiClient.ts:128 request sent, no response
MSG_CONNECT_FAILED == "failed to connect to the server"
\* apiClient.ts:133 error while setting the request up
MSG_REQUEST_SETUP == "error while setting up the request"
\* StudioAvailabilityFetcher.tsx:56
MSG_API_REQUEST_FAILED == "API request failed"
\* StudioAvailabilityFetcher.tsx:69
MSG_UNEXPECTED == "an unexpected error occurred"
\* StudioAvailabilityFetcher.tsx:166
MSG_FETCH_FAILED == "failed to fetch the availability"
\* the message of the TypeError the engine raises on response.data.data.studioId
\* when response.data.data is undefined
MSG_TYPE_ERROR == "Cannot read properties of undefined (reading 'studioId')"

\* what the fake server puts in a structured error payload
ServerErrorCode == "STUDIO_NOT_FOUND"
ServerErrorMessage == "studio not found (server text)"
\* what a server that answers { message } on a non-2xx status says
ServerPlainMessage == "bad request (server text)"

Has(rec, field) == field \in DOMAIN rec

\* JS: x || fallback, for strings
OrElse(x, fallback) == IF x = "" THEN fallback ELSE x

(***************************************************************************)
(* Studios and the HTTP layer.                                             *)
(***************************************************************************)
Studio(i) == [id |-> i, name |-> << "studio", i >>]

\* the one bookable interval the fake server reports for a studio with room
Slot == [start |-> "10:00", end |-> "12:00", roomName |-> << "A" >>,
         startsAtThirty |-> FALSE]

RECURSIVE DecString(_)
\* the decimal digits of a natural: the string the server sends for a studio id
DecString(n) == IF n < 10 THEN << n >> ELSE Append(DecString(n \div 10), n % 10)

RECURSIVE DigitsValue(_)
DigitsValue(ds) ==
    IF Len(ds) = 0 THEN 0
    ELSE 10 * DigitsValue(SubSeq(ds, 1, Len(ds) - 1)) + ds[Len(ds)]

\* parseInt of a string of decimal digits
ParseInt(str) == IF Len(str) = 0 THEN NaN ELSE DigitsValue(str)

\* answers of the HTTP layer that carry a well-formed success body
GoodKinds == {"ok", "full"}
\* answers that are failures or carry a malformed body
BadKinds == {"serverError", "plainError", "noResponse", "timeout",
             "setupError", "noData", "emptyData"}

\* the success body of the server for a studio
SuccessBody(studio, ranges) ==
    [status |-> "success",
     data   |-> [studioId |-> DecString(studio.id), studioName |-> studio.name,
                 date |-> "2026-01-01", availableRanges |-> ranges,
                 meta |-> [timezone |-> "Asia/Tokyo"]]]

\* what axios settles the GET of /studios/{id}/availability with, before the
\* interceptors: a response, or an AxiosError with or without response/request
Transport(kind, studio) ==
    CASE kind = "ok" ->
           [fulfilled |-> TRUE, status |-> 200, data |-> SuccessBody(studio, << Slot >>)]
      [] kind = "full" ->
           [fulfilled |-> TRUE, status |-> 200, data |-> SuccessBody(studio, << >>)]
      [] kind = "noData" ->
           [fulfilled |-> TRUE, status |-> 200, data |-> [status |-> "success"]]
      [] kind = "emptyData" ->
           [fulfilled |-> TRUE, status |-> 200,
            data |-> [status |-> "success", data |-> << >>]]
      [] kind = "serverError" ->
           [fulfilled |-> FALSE, hasResponse |-> TRUE, hasRequest |-> TRUE, status |-> 404,
            message |-> "Request failed with status code 404", code |-> "ERR_BAD_REQUEST",
            data |-> [status |-> "error",
                      error  |-> [code |-> ServerErrorCode, message |-> ServerErrorMessage]]]
      [] kind = "plainError" ->
           [fulfilled |-> FALSE, hasResponse |-> TRUE, hasRequest |-> TRUE, status |-> 400,
            message |-> "Request failed with status code 400", code |-> "ERR_BAD_REQUEST",
            data |-> [message |-> ServerPlainMessage]]
      [] kind = "noResponse" ->
           [fulfilled |-> FALSE, hasResponse |-> FALSE, hasRequest |-> TRUE,
            message |-> "Network Error", code |-> "ERR_NETWORK"]
      [] kind = "timeout" ->
           [fulfilled |-> FALSE, hasResponse |-> FALSE, hasRequest |-> TRUE,
            message |-> "timeout of 10000ms exceeded", code |-> "ECONNABORTED"]
      [] kind = "setupError" ->
           [fulfilled |-> FALSE, hasResponse |-> FALSE, hasRequest |-> FALSE,
            message |-> "Invalid URL", code |-> "ERR_INVALID_URL"]

\* new Error(message): not an AxiosError, no code, no response
PlainError(message) ==
    [class |-> "Error", isAxiosError |-> FALSE, message |-> message, code |-> ""]

\* new ApiError(message, code)
ApiError(message, code) ==
    [class |-> "ApiError", isAxiosError |-> FALSE, message |-> message, code |-> code]

\* mutant: the branches for "no response" and "response" yield each other's text
ResponseInterceptorSwapped(error) ==
    IF error.hasResponse
    THEN PlainError(MSG_CONNECT_FAILED)
    ELSE IF error.hasRequest
    THEN PlainError(MSG_SERVER_ERROR)
    ELSE PlainError(MSG_REQUEST_SETUP)

\* the rejection handler of the response interceptor: what the awaited
\* apiClient.get rejects with
ResponseInterceptor(error) ==
    IF error.hasResponse
    THEN PlainError(IF Has(error.data, "message")
                    THEN OrElse(error.data.message, MSG_SERVER_ERROR)
                    ELSE MSG_SERVER_ERROR)
    ELSE IF error.hasRequest
    THEN PlainError(MSG_CONNECT_FAILED)
    ELSE PlainError(MSG_REQUEST_SETUP)

\* await apiClient.get(...): [returned |-> response] or [thrown |-> error]
ApiClientGet(transport) ==
    IF transport.fulfilled
    THEN [returned |-> transport]
    ELSE [thrown |-> ResponseInterceptor(transport)]

\* the try block of fetchStudioAvailability after the await; a property that
\* is undefined in the body is a field the returned record does not have
ReadResponse(response) ==
    IF ~Has(response.data, "data")
    THEN [thrown |-> [class |-> "TypeError", isAxiosError |-> FALSE,
                      message |-> MSG_TYPE_ERROR, code |-> ""]]
    ELSE LET d == response.data.data
         IN  [returned |->
                [studioId |-> IF Has(d, "studioId") THEN ParseInt(d.studioId) ELSE NaN]
                @@ [f \in DOMAIN d \cap {"studioName", "availableRanges"} |-> d[f]]]

\* the catch block of fetchStudioAvailability: the ApiError it throws
WrapError(error) ==
    IF error.isAxiosError
    THEN IF Has(error, "response") /\ Has(error.response.data, "status")
            /\ error.response.data.status = "error"
         THEN ApiError(error.response.data.error.message, error.response.data.error.code)
         ELSE ApiError(OrElse(error.message, MSG_API_REQUEST_FAILED),
                       OrElse(error.code, "API_ERROR"))
    ELSE IF error.class \in {"Error", "TypeError", "ApiError"}
    THEN ApiError(error.message, "UNKNOWN_ERROR")
    ELSE ApiError(MSG_UNEXPECTED, "UNKNOWN_ERROR")

\* fetchStudioAvailability: [returned |-> StudioAvailability] or [thrown |-> ApiError]
FetchStudioAvailability(transport) ==
    LET got  == ApiClientGet(transport)
        read == IF Has(got, "returned") THEN ReadResponse(got.returned) ELSE got
    IN  IF Has(read, "returned") THEN read ELSE [thrown |-> WrapError(read.thrown)]

\* mutant: the map callback without its try/catch: a failed fetch rejects
StudioTaskNoCatch(studio, transport) ==
    LET fetched == FetchStudioAvailability(transport)
    IN  IF Has(fetched, "returned")
        THEN [returned |-> [data |-> fetched.returned]]
        ELSE fetched

\* one element of studios.map(async (studio) => ...) in processBatch: the
\* FetchResult it hands to onProgress, [returned |-> result], or the error the
\* async function rejects with, [thrown |-> error]
StudioTask(studio, transport) ==
    LET fetched == FetchStudioAvailability(transport)
    IN  IF Has(fetched, "returned")
        THEN [returned |-> [data |-> fetched.returned]]
        ELSE LET error == fetched.thrown
                 errorResult ==
                     IF error.class = "ApiError"
                     THEN [message |-> error.message, code |-> error.code]
                     ELSE [message |-> MSG_FETCH_FAILED, code |-> "FETCH_ERROR"]
             IN  [returned |->
                    [data  |-> [studioId |-> studio.id, studioName |-> studio.name,
                                availableRanges |-> << >>],
                     error |-> [message |-> errorResult.message,
                                code    |-> OrElse(errorResult.code, "UNKNOWN_ERROR")]]]

(***************************************************************************)
(* formatTimeRanges of AvailabilityTimeSlots. A room name is the sequence  *)
(* of its characters; a slot without roomName is a record without that     *)
(* field.                                                                  *)
(***************************************************************************)
\* the group name shown for an empty key (the source's literal, by its meaning)
PLACEHOLDER == << "(unspecified)" >>

\* String(undefined): the key lodash files a slot without roomName under
UNDEFINED_KEY == << "u", "n", "d", "e", "f", "i", "n", "e", "d" >>

DigitChars == << "0", "1", "2", "3", "4", "5", "6", "7", "8", "9" >>

IsDigit(c) == \E d \in 1..10 : DigitChars[d] = c

DigitOf(c) == (CHOOSE d \in 1..10 : DigitChars[d] = c) - 1

\* the number a string of digits denotes
IndexValue(key) ==
    LET V[j \in 0..Len(key)] == IF j = 0 THEN 0 ELSE 10 * V[j - 1] + DigitOf(key[j])
    IN  V[Len(key)]

\* whether a property key is an array index: the canonical decimal string of
\* an integer (keys of 10 digits up to 4294967294 are array indices too; the
\* room names of the model are shorter)
IsArrayIndex(key) ==
    /\ Len(key) \in 1..9
    /\ \A j \in 1..Len(key) : IsDigit(key[j])
    /\ Len(key) = 1 \/ key[1] # "0"

\* the property key _.groupBy(ranges, "roomName") files a slot under
GroupKey(slot) == IF Has(slot, "roomName") THEN slot.roomName ELSE UNDEFINED_KEY

\* the keys of groupedByRoom in the order in which groupBy created them
InsertionOrder(ranges) ==
    LET K[j \in 0..Len(ranges)] ==
            IF j = 0 THEN << >>
            ELSE IF \E m \in 1..Len(K[j - 1]) : K[j - 1][m] = GroupKey(ranges[j])
                 THEN K[j - 1]
                 ELSE Append(K[j - 1], GroupKey(ranges[j]))
    IN  K[Len(ranges)]

\* the order in which Object.entries lists the keys of an object: the array
\* indices in ascending numeric order, then the other keys as created
EntriesOrder(keys) ==
    LET indices == { m \in 1..Len(keys) : IsArrayIndex(keys[m]) }
        sorted  == [j \in 1..Cardinality(indices) |->
                      keys[CHOOSE m \in indices :
                              Cardinality({ o \in indices :
                                  IndexValue(keys[o]) < IndexValue(keys[m]) }) = j - 1]]
    IN  sorted \o SelectSeq(keys, LAMBDA k : ~IsArrayIndex(k))

\* mutant: the template with start and end exchanged
TimeRangeSwapped(slot) == slot.end \o "~" \o slot.start

\* `${slot.start}~${slot.end}` (the source's wave dash written as ~)
TimeRange(slot) == slot.start \o "~" \o slot.end

\* roomName || placeholder
RoomLabel(roomName) == IF roomName = << >> THEN PLACEHOLDER ELSE roomName

FormatTimeRanges(ranges) ==
    LET keys == EntriesOrder(InsertionOrder(ranges))
    IN  [g \in 1..Len(keys) |->
            LET slots == SelectSeq(ranges, LAMBDA slot : GroupKey(slot) = keys[g])
            IN  [roomName   |-> RoomLabel(keys[g]),
                 timeRanges |-> [j \in 1..Len(slots) |-> TimeRange(slots[j])]]]

(***************************************************************************)
(* The hook useStudioAvailability and the runs of its effect.              *)
(***************************************************************************)
VARIABLES
    availabilityData,   \* useState: the StudioAvailability list
    loading,            \* useState
    progress,           \* useState: a JS Number
    errors,             \* useState: Map studioId -> message
    run,                \* the executions of fetchAllStudioAvailability, in start order:
                        \* studios, loop counter i, pc, requests in flight (pending),
                        \* the sleep timer, and as history the sleeps made and
                        \* the requests issued (positions in the list, in order)
                        \* and the number of outcomes known when it started
    answers,            \* the answers the HTTP layer gives in this behaviour
    outcomes,           \* history: every FetchResult handed to onProgress, in order
    recordedBy,         \* history: the run that appended each availabilityData entry
    batchSize,          \* the value of BATCH_SIZE the loop and the slices read
    timeSlots,          \* AvailabilityTimeSlots: its prop availableRanges, whether it
                        \* has rendered, and groupedAvailabilities of that render
    app,                \* MusicStudioBookingApp: its useState values, and the props
                        \* the effect of the mounted results component last ran with
    search,             \* StudioSearchComponent: its useState values, the debounce
                        \* timer, the searches in flight, and as history the query
                        \* the shown results answer and the queries sent
    mount,              \* whether the results component is mounted, and how many of
                        \* the runs belong to instances that were unmounted
    script              \* the container start-up script: its position, the
                        \* connection attempts made, the commands run, its exit status

hookVars == << availabilityData, loading, progress, errors, run, answers, outcomes,
               recordedBy, batchSize >>

vars == << hookVars, timeSlots, app, search, mount, script >>

\* AvailabilityTimeSlots before it is given slots
NoTimeSlots == [availableRanges |-> << >>, rendered |-> FALSE,
                groupedAvailabilities |-> << >>]

(***************************************************************************)
(* MusicStudioBookingApp: the search form that mounts the results          *)
(* component and hands it studios and the search window.                   *)
(***************************************************************************)
\* timeOptions: "00:00" to "24:00", i.toString().padStart(2, "0") + ":00"
timeOptions ==
    [i \in 1..25 |-> DigitChars[((i - 1) \div 10) + 1] \o DigitChars[((i - 1) % 10) + 1]
                     \o ":00"]

\* the two characters of the unit the duration options end with (hours)
HOURS_UNIT == << "ji", "kan" >>

\* durationOptions: "1" to "5" followed by the unit, as strings of characters
durationOptions == [n \in 1..5 |-> << DigitChars[n + 1] >> \o HOURS_UNIT]

\* Array.prototype.indexOf: the zero-based position of the first match, or -1
IndexOf(arr, v) ==
    IF \E i \in 1..Len(arr) : arr[i] = v
    THEN (CHOOSE i \in 1..Len(arr) : arr[i] = v /\ \A j \in 1..(i - 1) : arr[j] # v) - 1
    ELSE -1

\* String.prototype.replace(sub, ""): the string without the first occurrence of sub
RemoveFirst(str, sub) ==
    LET at == { p \in 1..(Len(str) - Len(sub) + 1) :
                    SubSeq(str, p, p + Len(sub) - 1) = sub }
    IN  IF at = {} THEN str
        ELSE LET p == CHOOSE q \in at : \A m \in at : q <= m
             IN  SubSeq(str, 1, p - 1) \o SubSeq(str, p + Len(sub), Len(str))

\* parseInt of a string of characters: the number its leading digits denote,
\* NaN when it does not start with a digit
ParseIntChars(str) ==
    LET n == CHOOSE k \in 0..Len(str) :
                 /\ \A j \in 1..k : IsDigit(str[j])
                 /\ k < Len(str) => ~IsDigit(str[k + 1])
    IN  IF n = 0 THEN NaN ELSE IndexValue(SubSeq(str, 1, n))

\* parseInt(selectedDuration.replace(unit, ""))
DurationHours(selectedDuration) == ParseIntChars(RemoveFirst(selectedDuration, HOURS_UNIT))

\* useState<Date>() before a date is picked
NoDate == 0

\* the results component is not mounted: no effect has run for it
NoEffect == [mounted |-> FALSE]

\* the alerts of validateSearchConditions
MSG_FILL_ALL == "fill in all fields"
MSG_END_AFTER_START == "choose an end time after the start time"
MSG_RANGE_TOO_SHORT == "the search range is shorter than the booking time"

\* no alert was raised by the last handler
NoAlert == "none"

\* debouncedFetch with no call waiting for its timer
NoDebounce == [pending |-> FALSE]

\* error: null
NoSearchError == "null"

\* StudioSearchComponent after its first render
InitialSearch ==
    [searchQuery |-> "",
     isSearchResultsOpen |-> FALSE,
     searchResults |-> << >>,
     isLoading |-> FALSE,
     error |-> NoSearchError,
     selectedIndex |-> -1,
     debounced |-> NoDebounce,
     inFlight |-> {},
     resultsFor |-> 0,
     sent |-> << >>]

\* the results component is mounted and no instance of it was unmounted
InitialMount == [mounted |-> TRUE, discarded |-> 0]

\* the exit status of a script that has not exited
Running == -1

\* the start-up script before its first command
InitialScript ==
    [pc |-> "parse", attempts |-> 0, connected |-> FALSE, ran |-> << >>,
     status |-> Running]

\* the state of the component after its first render: two preset studios, an
\* empty form, no search performed
InitialApp ==
    [selectedStudios |-> << Studio(1), Studio(2) >>,
     selectedDate |-> NoDate,
     searchStartTime |-> "",
     searchEndTime |-> "",
     selectedDuration |-> << >>,
     searchPerformed |-> FALSE,
     alert |-> NoAlert,
     effect |-> NoEffect]

\* the alert validateSearchConditions raises
ValidationAlert(a) ==
    IF \/ a.selectedDate = NoDate
       \/ a.searchStartTime = ""
       \/ a.searchEndTime = ""
       \/ a.selectedDuration = << >>
       \/ Len(a.selectedStudios) = 0
    THEN MSG_FILL_ALL
    ELSE LET startIndex == IndexOf(timeOptions, a.searchStartTime)
             endIndex == IndexOf(timeOptions, a.searchEndTime)
             durationHours == DurationHours(a.selectedDuration)
         IN  IF startIndex >= endIndex THEN MSG_END_AFTER_START
             ELSE IF endIndex - startIndex < durationHours THEN MSG_RANGE_TOO_SHORT
             ELSE NoAlert

\* validateSearchConditions with the check of the duration left out
ValidateSearchConditionsNoDuration(a) ==
    IF \/ a.selectedDate = NoDate
       \/ a.searchStartTime = ""
       \/ a.searchEndTime = ""
       \/ a.selectedDuration = << >>
       \/ Len(a.selectedStudios) = 0
    THEN FALSE
    ELSE IndexOf(timeOptions, a.searchStartTime) < IndexOf(timeOptions, a.searchEndTime)

\* the value validateSearchConditions returns
ValidateSearchConditions(a) ==
    IF \/ a.selectedDate = NoDate
       \/ a.searchStartTime = ""
       \/ a.searchEndTime = ""
       \/ a.selectedDuration = << >>
       \/ Len(a.selectedStudios) = 0
    THEN FALSE
    ELSE LET startIndex == IndexOf(timeOptions, a.searchStartTime)
             endIndex == IndexOf(timeOptions, a.searchEndTime)
             durationHours == DurationHours(a.selectedDuration)
         IN  IF startIndex >= endIndex THEN FALSE
             ELSE IF endIndex - startIndex < durationHours THEN FALSE
             ELSE TRUE

\* the render after a state change: while searchPerformed the results component
\* is mounted with the current values as props and its effect runs with them
\* (every change below changes one of its dependencies); otherwise it is not
\* mounted
Rendered(a) ==
    [a EXCEPT !.effect =
        IF a.searchPerformed
        THEN [mounted |-> TRUE,
              studios |-> a.selectedStudios,
              selectedDate |-> a.selectedDate,
              searchStartTime |-> a.searchStartTime,
              searchEndTime |-> a.searchEndTime,
              durationHours |-> DurationHours(a.selectedDuration)]
        ELSE NoEffect]

\* the studios the search box can offer
Candidates == { Studio(i) : i \in 1..(MaxStudios + 1) }

\* the options picked in the model: the first MaxTimes of timeOptions, the
\* first MaxDurations of durationOptions, MaxDates selectable days
TimeChoices == { timeOptions[i] : i \in 1..MaxTimes }

DurationChoices == { durationOptions[n] : n \in 1..MaxDurations }

DateChoices == 1..MaxDates

IsMaxSelectedNever(selectedCount) == FALSE

\* isMaxSelected = selectedCount >= maxSelections, with maxSelections = 5
IsMaxSelected(selectedCount) == selectedCount >= MaxStudios

\* selectedStudios.some((selected) => selected.id === studio.id)
IsAlreadySelected(selectedStudios, studio) ==
    \E j \in 1..Len(selectedStudios) : selectedStudios[j].id = studio.id

WithStudioAlways(selectedStudios, studio) == Append(selectedStudios, studio)

\* handleStudioSelect: the list with the studio appended unless it is already
\* selected
WithStudio(selectedStudios, studio) ==
    IF ~IsAlreadySelected(selectedStudios, studio)
    THEN Append(selectedStudios, studio)
    ELSE selectedStudios

\* a search result is clicked: StudioSearchComponent calls onStudioSelect only
\* when !isMaxSelected (selectedCount >= maxSelections, maxSelections = 5) and
\* handleStudioSelect appends the studio unless it is already selected
HandleStudioSelect(studio) ==
    /\ ~IsMaxSelected(Len(app.selectedStudios))
    /\ ~IsAlreadySelected(app.selectedStudios, studio)
    /\ app' = Rendered([app EXCEPT !.alert = NoAlert, !.selectedStudios = WithStudio(@, studio)])
    /\ UNCHANGED << hookVars, timeSlots, search, mount, script >>

\* the trash button of a selected studio: removeStudio; the new array makes
\* StudioSearchComponent rebuild debouncedFetch and cancel the old one
RemoveStudio(studioId) ==
    /\ \E j \in 1..Len(app.selectedStudios) : app.selectedStudios[j].id = studioId
    /\ app' = Rendered([app EXCEPT !.alert = NoAlert,
                  !.selectedStudios = SelectSeq(@, LAMBDA s : s.id # studioId)])
    /\ search' = [search EXCEPT !.debounced = NoDebounce]
    /\ UNCHANGED << hookVars, timeSlots, mount, script >>

\* the search button: handleSearch; when the validation fails only its alert
\* is raised
HandleSearch ==
    /\ app' = IF ValidateSearchConditions(app)
              THEN Rendered([app EXCEPT !.alert = NoAlert, !.searchPerformed = TRUE])
              ELSE [app EXCEPT !.alert = ValidationAlert(app)]
    /\ UNCHANGED << hookVars, timeSlots, search, mount, script >>

\* the new-search button of the results component: resetSearch
ResetSearch ==
    /\ app.searchPerformed
    /\ app' = Rendered([app EXCEPT !.alert = NoAlert,
                  !.selectedStudios = << >>,
                  !.selectedDate = NoDate,
                  !.searchStartTime = "",
                  !.searchEndTime = "",
                  !.selectedDuration = << >>,
                  !.searchPerformed = FALSE])
    /\ search' = [search EXCEPT !.debounced = NoDebounce]
    /\ UNCHANGED << hookVars, timeSlots, mount, script >>

\* a day is picked in the calendar: setSelectedDate
SetSelectedDate(date) ==
    /\ date # app.selectedDate
    /\ app' = Rendered([app EXCEPT !.alert = NoAlert, !.selectedDate = date])
    /\ UNCHANGED << hookVars, timeSlots, search, mount, script >>

\* an option of the start time select is picked: setSearchStartTime
SetSearchStartTime(time) ==
    /\ time # app.searchStartTime
    /\ app' = Rendered([app EXCEPT !.alert = NoAlert, !.searchStartTime = time])
    /\ UNCHANGED << hookVars, timeSlots, search, mount, script >>

\* an option of the end time select is picked: setSearchEndTime
SetSearchEndTime(time) ==
    /\ time # app.searchEndTime
    /\ app' = Rendered([app EXCEPT !.alert = NoAlert, !.searchEndTime = time])
    /\ UNCHANGED << hookVars, timeSlots, search, mount, script >>

\* an option of the duration select is picked: setSelectedDuration
SetSelectedDuration(duration) ==
    /\ duration # app.selectedDuration
    /\ app' = Rendered([app EXCEPT !.alert = NoAlert, !.selectedDuration = duration])
    /\ UNCHANGED << hookVars, timeSlots, search, mount, script >>

(***************************************************************************)
(* StudioSearchComponent: the search box that offers studios to select.    *)
(***************************************************************************)
\* the message of the error thrown for a response that is not ok
MSG_SEARCH_FAILED == "an error occurred while searching"

\* the values typed into the search box
Queries == {"", "s", "st", "stu"}

\* the rows the search endpoint answers a query with
SearchCatalogue(query) ==
    IF query = "st" THEN [i \in 1..(MaxStudios + 1) |-> Studio(i)]
    ELSE << Studio(3), Studio(1) >>

\* the text input is typed into (it is disabled while isMaxSelected):
\* handleInputChange sets the query and calls debouncedFetch, which restarts
\* the timer with the new argument
HandleInputChange(query) ==
    /\ ~IsMaxSelected(Len(app.selectedStudios))
    /\ query # search.searchQuery
    /\ search' = [search EXCEPT
                      !.searchQuery = query,
                      !.debounced = [pending |-> TRUE, query |-> query]]
    /\ UNCHANGED << hookVars, timeSlots, app, mount, script >>

\* the debounce timer fires: a query of 2 characters or more is sent by
\* fetchStudios (up to its await), a shorter one clears and closes the results
DebounceFires ==
    /\ search.debounced.pending
    /\ LET query == search.debounced.query
       IN  IF Len(query) >= 2
           THEN /\ Len(search.sent) < MaxFetches
                /\ search' = [search EXCEPT
                                  !.debounced = NoDebounce,
                                  !.isLoading = TRUE,
                                  !.error = NoSearchError,
                                  !.sent = Append(@, query),
                                  !.inFlight = @ \cup
                                      { [n |-> Len(search.sent) + 1,
                                         selectedStudios |-> app.selectedStudios] }]
           ELSE search' = [search EXCEPT
                               !.debounced = NoDebounce,
                               !.searchResults = << >>,
                               !.isSearchResultsOpen = FALSE]
    /\ UNCHANGED << hookVars, timeSlots, app, mount, script >>

\* the response of a search arrives: fetchStudios after its await. An ok
\* response shows the rows that were not selected when the search was sent;
\* any failure sets the error and empties the results
FetchStudiosSettles(n, ok) ==
    /\ \E f \in search.inFlight :
       /\ f.n = n
       /\ search' =
              IF ok
              THEN [search EXCEPT
                        !.inFlight = @ \ {f},
                        !.searchResults =
                            SelectSeq(SearchCatalogue(search.sent[f.n]),
                                      LAMBDA studio :
                                          ~IsAlreadySelected(f.selectedStudios, studio)),
                        !.isSearchResultsOpen = TRUE,
                        !.selectedIndex = -1,
                        !.isLoading = FALSE,
                        !.resultsFor = f.n]
              ELSE [search EXCEPT
                        !.inFlight = @ \ {f},
                        !.error = MSG_SEARCH_FAILED,
                        !.searchResults = << >>,
                        !.isLoading = FALSE,
                        !.resultsFor = f.n]
    /\ UNCHANGED << hookVars, timeSlots, app, mount, script >>

\* whether the list of results is rendered
ResultsShown ==
    /\ search.isSearchResultsOpen
    /\ Len(search.searchResults) > 0
    /\ ~IsMaxSelected(Len(app.selectedStudios))

\* onStudioSelect(studio) followed by the closing of the results; when the
\* selection changes, debouncedFetch is rebuilt and the old one cancelled
SelectAndClose(studio) ==
    /\ app' = Rendered([app EXCEPT !.alert = NoAlert, !.selectedStudios = WithStudio(@, studio)])
    /\ search' = [search EXCEPT
                      !.searchQuery = "",
                      !.isSearchResultsOpen = FALSE,
                      !.selectedIndex = -1,
                      !.debounced =
                          IF WithStudio(app.selectedStudios, studio) # app.selectedStudios
                          THEN NoDebounce ELSE @]
    /\ UNCHANGED << hookVars, timeSlots, mount, script >>

\* a row of the results is clicked
ClickResult(index) ==
    /\ ResultsShown
    /\ index \in 1..Len(search.searchResults)
    /\ ~IsMaxSelected(Len(app.selectedStudios))
    /\ SelectAndClose(search.searchResults[index])

\* handleKeyDown, Enter: selects the highlighted row
KeyEnter ==
    /\ ~IsMaxSelected(Len(app.selectedStudios))
    /\ ~(~search.isSearchResultsOpen \/ Len(search.searchResults) = 0)
    /\ search.selectedIndex >= 0 /\ ~IsMaxSelected(Len(app.selectedStudios))
    /\ SelectAndClose(search.searchResults[search.selectedIndex + 1])

\* handleKeyDown, ArrowDown
KeyArrowDown ==
    /\ ~IsMaxSelected(Len(app.selectedStudios))
    /\ ~(~search.isSearchResultsOpen \/ Len(search.searchResults) = 0)
    /\ search' = [search EXCEPT
                      !.selectedIndex =
                          IF @ < Len(search.searchResults) - 1 THEN @ + 1 ELSE 0]
    /\ UNCHANGED << hookVars, timeSlots, app, mount, script >>

\* handleKeyDown, ArrowUp
KeyArrowUp ==
    /\ ~IsMaxSelected(Len(app.selectedStudios))
    /\ ~(~search.isSearchResultsOpen \/ Len(search.searchResults) = 0)
    /\ search' = [search EXCEPT
                      !.selectedIndex =
                          IF @ > 0 THEN @ - 1 ELSE Len(search.searchResults) - 1]
    /\ UNCHANGED << hookVars, timeSlots, app, mount, script >>

\* the mouse enters a row of the results: onMouseEnter
MouseEnterResult(index) ==
    /\ ResultsShown
    /\ index \in 1..Len(search.searchResults)
    /\ index - 1 # search.selectedIndex
    /\ search' = [search EXCEPT !.selectedIndex = index - 1]
    /\ UNCHANGED << hookVars, timeSlots, app, mount, script >>

\* handleKeyDown, Escape, and a mouse press outside the component
CloseResults ==
    /\ search.isSearchResultsOpen \/ search.selectedIndex # -1
    /\ search' = [search EXCEPT !.isSearchResultsOpen = FALSE, !.selectedIndex = -1]
    /\ UNCHANGED << hookVars, timeSlots, app, mount, script >>

\* the studio lists a run is started with: distinct ids, 1 to MaxStudios entries
StudioLists ==
    { [k \in 1..n |-> Studio(k)] : n \in 1..MaxStudios } \cup { << Studio(3), Studio(1) >> }

Hundred == NumOfNat(100)

\* 100 / studios.length, for every length a list has
IncrementTable == [n \in 1..MaxStudios |-> NumDiv(100, n)]
Increment(n) == IncrementTable[n]

\* mutant: a slice that starts one position early, so that it takes the last
\* studio of the batch before once more
BatchOfOverlap(i, n) == { k \in 1..n : i - 1 < k /\ k <= i + batchSize }

\* studios.slice(i, i + BATCH_SIZE), as the 1-based positions in the list
BatchOf(i, n) == { k \in 1..n : i < k /\ k <= i + batchSize }

\* the positions of a batch in the order in which map issues their requests
InOrder(batch) ==
    [j \in 1..Cardinality(batch) |->
        CHOOSE k \in batch : Cardinality({ m \in batch : m < k }) = j - 1]

\* mutant: the sleep guarded by the loop's own test, so it follows every batch
MoreBatchesAlways(i, n) == i < n

\* the condition under which the loop sleeps after a batch
MoreBatches(i, n) == i + batchSize < n

\* mutant: the loop test one short of the length of the list
LoopAtShort(me, i) ==
    IF i < Len(me.studios) - 1
    THEN [me EXCEPT !.i = i, !.pc = "awaiting", !.timer = 0,
                    !.pending = BatchOf(i, Len(me.studios)),
                    !.requests = @ \o InOrder(BatchOf(i, Len(me.studios)))]
    ELSE [me EXCEPT !.i = i, !.pc = "done", !.timer = 0, !.pending = {}]

\* mutant: every remaining request goes out at once (one Promise.all over the list)
LoopAtAll(me, i) ==
    IF i < Len(me.studios)
    THEN [me EXCEPT !.i = i, !.pc = "awaiting", !.timer = 0,
                    !.pending = { k \in 1..Len(me.studios) : i < k },
                    !.requests = @ \o InOrder({ k \in 1..Len(me.studios) : i < k })]
    ELSE [me EXCEPT !.i = i, !.pc = "done", !.timer = 0, !.pending = {}]

\* the for loop at its test with the counter at i: the next processBatch is
\* called (its requests go out) or the loop is left and setLoading(false) runs
LoopAt(me, i) ==
    IF i < Len(me.studios)
    THEN [me EXCEPT !.i = i, !.pc = "awaiting", !.timer = 0,
                    !.pending = BatchOf(i, Len(me.studios)),
                    !.requests = @ \o InOrder(BatchOf(i, Len(me.studios)))]
    ELSE [me EXCEPT !.i = i, !.pc = "done", !.timer = 0, !.pending = {}]

\* mutant: the batch counts as settled with its first promise (Promise.race)
AllSettledFirst(left) == TRUE

\* await Promise.all(promises) goes on when no promise of the batch is left
AllSettled(left) == left = {}

\* the run after the last promise of its batch has settled: Promise.all
\* resolves, then the loop sleeps or goes on
AfterBatch(me) ==
    IF MoreBatches(me.i, Len(me.studios))
    THEN [me EXCEPT !.pc = "sleeping", !.pending = {}, !.timer = FETCH_DELAY,
                    !.sleeps = @ + 1]
    ELSE LoopAt(me, me.i + batchSize)

\* mutant: a failed studio replaces the list instead of joining it
AddDataReset(list, result) ==
    IF Has(result, "error") THEN << result.data >> ELSE Append(list, result.data)

\* the updater of setAvailabilityData in onProgress
AddData(list, result) == Append(list, result.data)

\* the updater of setErrors in onProgress
SetError(map, result) ==
    IF Has(result, "error")
    THEN [s \in DOMAIN map \cup {result.data.studioId} |->
            IF s = result.data.studioId THEN result.error.message ELSE map[s]]
    ELSE map

\* mutant: the result list of the run before is kept
KeptList == availabilityData

\* setAvailabilityData([]) at the start of a run
EmptyList == << >>

\* mutant: the error map of the run before is kept
KeptMap == errors

\* setErrors(new Map()) at the start of a run
EmptyMap == << >>

\* the requests all the runs started so far make
Planned ==
    LET Sum[r \in 0..Len(run)] == IF r = 0 THEN 0 ELSE Sum[r - 1] + Len(run[r].studios)
    IN  Sum[Len(run)]

Init ==
    /\ availabilityData = << >>
    /\ loading = TRUE
    /\ progress = NumZero
    /\ errors = << >>
    /\ run = << >>
    /\ answers \in { {g, b} : g \in GoodKinds, b \in BadKinds }
    /\ outcomes = << >>
    /\ recordedBy = << >>
    /\ batchSize = BATCH_SIZE
    /\ timeSlots = NoTimeSlots
    /\ app = InitialApp
    /\ search = InitialSearch
    /\ mount = InitialMount
    /\ script = InitialScript

\* the effect runs (on mount, and whenever studios, date, times or duration
\* change): fetchAllStudioAvailability up to its first await
RunEffect(list) ==
    /\ \/ Len(run) = 0
       \/ Len(run) < MaxRuns /\ Planned + Len(list) <= MaxRequests
    /\ LET me == LoopAt([studios |-> list, i |-> 0, pc |-> "awaiting",
                         pending |-> {}, timer |-> 0, sleeps |-> 0,
                         requests |-> << >>, startedAt |-> Len(outcomes)], 0)
       IN  /\ run' = Append(run, me)
           /\ loading' = (me.pc # "done")
    /\ progress' = NumZero
    /\ errors' = EmptyMap
    /\ availabilityData' = EmptyList
    /\ recordedBy' = << >>
    /\ UNCHANGED << answers, outcomes, batchSize, timeSlots, app, search, script >>

\* the effect of the mounted results component runs
StartRun(list) ==
    /\ mount.mounted
    /\ RunEffect(list)
    /\ UNCHANGED mount

IsLiveAlways(r) == TRUE

\* whether run r belongs to the mounted instance of the results component:
\* the state setters of an unmounted instance change nothing
IsLive(r) == r > mount.discarded

\* the request of run r for its k-th studio settles: the promise chain of that
\* studio runs to onProgress and, when the batch is complete, the loop goes on
\* to its next await
Respond(r, k) ==
    /\ r \in 1..Len(run)
    /\ k \in run[r].pending
    /\ \E kind \in answers :
         LET me     == run[r]
             studio == me.studios[k]
             task   == StudioTask(studio, Transport(kind, studio))
             left   == me.pending \ {k}
             rest   == [me EXCEPT !.pending = left]
         IN  IF Has(task, "thrown")
             THEN /\ run' = [run EXCEPT ![r] = [rest EXCEPT !.pc = "rejected"]]
                  /\ UNCHANGED << availabilityData, loading, progress, errors,
                                  outcomes, recordedBy >>
             ELSE LET result == task.returned
                      after  == IF AllSettled(left) /\ me.pc = "awaiting"
                                THEN AfterBatch(rest) ELSE rest
                  IN  /\ IF IsLive(r)
                         THEN /\ availabilityData' = AddData(availabilityData, result)
                              /\ errors' = SetError(errors, result)
                              /\ progress' = NumAdd(progress, Increment(Len(me.studios)))
                              /\ loading' = IF after.pc = "done" THEN FALSE ELSE loading
                              /\ recordedBy' = Append(recordedBy, r)
                         ELSE UNCHANGED << availabilityData, errors, progress, loading,
                                           recordedBy >>
                      /\ run' = [run EXCEPT ![r] = after]
                      /\ outcomes' = Append(outcomes,
                            [run |-> r, index |-> k, kind |-> kind, result |-> result])
    /\ UNCHANGED << answers, batchSize, timeSlots, app, search, mount, script >>

\* the timer of sleep(FETCH_DELAY) fires: the loop goes on
Wake(r) ==
    /\ r \in 1..Len(run)
    /\ run[r].pc = "sleeping"
    /\ LET after == LoopAt(run[r], run[r].i + batchSize)
       IN  /\ run' = [run EXCEPT ![r] = after]
           /\ loading' = IF after.pc = "done" /\ IsLive(r) THEN FALSE ELSE loading
    /\ UNCHANGED << availabilityData, progress, errors, answers, outcomes, recordedBy,
                    batchSize, timeSlots, app, search, mount, script >>

\* resetSearch sets searchPerformed to false: the results component is
\* unmounted, and its runs go on without it
UnmountResults ==
    /\ mount.mounted
    /\ Len(run) > mount.discarded
    /\ mount' = [mounted |-> FALSE, discarded |-> Len(run)]
    /\ UNCHANGED << hookVars, timeSlots, app, search, script >>

\* a new search is submitted: a new instance of the results component is
\* mounted with the initial values of its state, and its effect runs
MountResults(list) ==
    /\ ~mount.mounted
    /\ mount' = [mount EXCEPT !.mounted = TRUE]
    /\ RunEffect(list)

Next ==
    \/ \E list \in StudioLists : StartRun(list)
    \/ \E r \in 1..MaxRuns, k \in 1..MaxStudios : Respond(r, k)
    \/ \E r \in 1..MaxRuns : Wake(r)

Spec == Init /\ [][Next]_vars

\* a request that is in flight settles or a timer that is set fires
Settle ==
    \/ \E r \in 1..MaxRuns, k \in 1..MaxStudios : Respond(r, k)
    \/ \E r \in 1..MaxRuns : Wake(r)

\* the same hook built with a batch size above 1 (line 15 edited)
InitBatch ==
    /\ availabilityData = << >>
    /\ loading = TRUE
    /\ progress = NumZero
    /\ errors = << >>
    /\ run = << >>
    /\ answers \in { {g, b} : g \in GoodKinds, b \in BadKinds }
    /\ outcomes = << >>
    /\ recordedBy = << >>
    /\ batchSize \in 2..MaxBatch
    /\ timeSlots = NoTimeSlots
    /\ app = InitialApp
    /\ search = InitialSearch
    /\ mount = InitialMount
    /\ script = InitialScript

BatchSpec == InitBatch /\ [][Next]_vars

\* availabilityData.find((a) => a.studioId === studio.id)?.availableRanges || []
AvailableRangesOf(studio) ==
    LET hits == { j \in 1..Len(availabilityData) :
                      availabilityData[j].studioId = studio.id }
    IN  IF hits = {} THEN << >>
        ELSE LET found == availabilityData[CHOOSE j \in hits : \A m \in hits : j <= m]
             IN  IF Has(found, "availableRanges") THEN found.availableRanges ELSE << >>

\* the badge on the card of a studio (shown once loading is false):
\* fetch-failed, available or full
Badge(studio) ==
    IF studio.id \in DOMAIN errors THEN "fetch-failed"
    ELSE IF Len(AvailableRangesOf(studio)) > 0 THEN "available"
    ELSE "full"

\* the room names the slots of the model carry: none, letters, array indices
\* (2 before 10 in numeric order, after it as strings) and a digit string that
\* is not an array index
RoomNames == { << >>, << "A" >>, << "B" >>, << "2" >>, << "1", "0" >>, << "0", "1" >> }

Times == { [start |-> "10:00", end |-> "12:00"], [start |-> "14:00", end |-> "15:00"] }

\* the slots a response can carry: with a room name, or without the field
Slots ==
    { [start |-> t.start, end |-> t.end, roomName |-> name, startsAtThirty |-> FALSE] :
          t \in Times, name \in RoomNames }
    \cup { [start |-> t.start, end |-> t.end, startsAtThirty |-> FALSE] : t \in Times }

SlotLists == UNION { [1..n -> Slots] : n \in 0..MaxSlots }

\* AvailabilityTimeSlots is mounted with a list of slots
InitFormat ==
    /\ availabilityData = << >>
    /\ loading = TRUE
    /\ progress = NumZero
    /\ errors = << >>
    /\ run = << >>
    /\ answers = GoodKinds
    /\ outcomes = << >>
    /\ recordedBy = << >>
    /\ batchSize = BATCH_SIZE
    /\ \E ranges \in SlotLists :
           timeSlots = [availableRanges |-> ranges, rendered |-> FALSE,
                        groupedAvailabilities |-> << >>]
    /\ app = InitialApp
    /\ search = InitialSearch
    /\ mount = InitialMount
    /\ script = InitialScript

\* AvailabilityTimeSlots renders: groupedAvailabilities = formatTimeRanges(availableRanges)
RenderTimeSlots ==
    /\ ~timeSlots.rendered
    /\ timeSlots' = [timeSlots EXCEPT
                         !.rendered = TRUE,
                         !.groupedAvailabilities = FormatTimeRanges(timeSlots.availableRanges)]
    /\ UNCHANGED << hookVars, app, search, mount, script >>

FormatSpec == InitFormat /\ [][RenderTimeSlots]_vars

\* the form before any action; the hook is not mounted
InitApp ==
    /\ availabilityData = << >>
    /\ loading = TRUE
    /\ progress = NumZero
    /\ errors = << >>
    /\ run = << >>
    /\ answers = GoodKinds
    /\ outcomes = << >>
    /\ recordedBy = << >>
    /\ batchSize = BATCH_SIZE
    /\ timeSlots = NoTimeSlots
    /\ app = InitialApp
    /\ search = InitialSearch
    /\ mount = InitialMount
    /\ script = InitialScript

NextApp ==
    \/ \E studio \in Candidates : HandleStudioSelect(studio)
    \/ \E studio \in Candidates : RemoveStudio(studio.id)
    \/ HandleSearch
    \/ ResetSearch
    \/ \E date \in DateChoices : SetSelectedDate(date)
    \/ \E time \in TimeChoices : SetSearchStartTime(time)
    \/ \E time \in TimeChoices : SetSearchEndTime(time)
    \/ \E duration \in DurationChoices : SetSelectedDuration(duration)

AppSpec == InitApp /\ [][NextApp]_vars

\* the selections the form holds when the search box is first looked at: the
\* two presets, or the presets with two studios selected earlier (the search
\* box is back in its first state once the input was emptied again)
EarlierSelections ==
    { << Studio(1), Studio(2) >>, << Studio(1), Studio(2), Studio(5), Studio(4) >> }

\* the form after a valid search was submitted
SearchedApp(a) ==
    Rendered([a EXCEPT
                  !.selectedDate = 1,
                  !.searchStartTime = timeOptions[1],
                  !.searchEndTime = timeOptions[2],
                  !.selectedDuration = durationOptions[1],
                  !.searchPerformed = TRUE])

\* the search box idle, the form before or after a search was submitted
InitSearch ==
    /\ availabilityData = << >>
    /\ loading = TRUE
    /\ progress = NumZero
    /\ errors = << >>
    /\ run = << >>
    /\ answers = GoodKinds
    /\ outcomes = << >>
    /\ recordedBy = << >>
    /\ batchSize = BATCH_SIZE
    /\ timeSlots = NoTimeSlots
    /\ \E list \in EarlierSelections, searched \in BOOLEAN :
           LET a == [InitialApp EXCEPT !.selectedStudios = list]
           IN  app = IF searched THEN SearchedApp(a) ELSE a
    /\ search = InitialSearch
    /\ mount = InitialMount
    /\ script = InitialScript

NextSearch ==
    \/ \E query \in Queries : HandleInputChange(query)
    \/ DebounceFires
    \/ \E n \in 1..MaxFetches, ok \in BOOLEAN : FetchStudiosSettles(n, ok)
    \/ \E index \in 1..(MaxStudios + 1) : ClickResult(index)
    \/ \E index \in 1..(MaxStudios + 1) : MouseEnterResult(index)
    \/ KeyEnter
    \/ KeyArrowDown
    \/ KeyArrowUp
    \/ CloseResults
    \/ \E studio \in Candidates : RemoveStudio(studio.id)
    \/ ResetSearch

SearchSpec == InitSearch /\ [][NextSearch]_vars

\* the hook in a form whose search is reset and submitted again
NextReset ==
    \/ \E list \in StudioLists : StartRun(list)
    \/ \E r \in 1..MaxRuns, k \in 1..MaxStudios : Respond(r, k)
    \/ \E r \in 1..MaxRuns : Wake(r)
    \/ UnmountResults
    \/ \E list \in StudioLists : MountResults(list)

ResetSpec == Init /\ [][NextReset]_vars

(***************************************************************************)
(* The container start-up script (bash with set -e): it waits for the      *)
(* database in an inline Python program, then runs the Django commands.    *)
(***************************************************************************)
\* range(30): the connection attempts of the waiting loop
MAX_ATTEMPTS == 30

\* the script after a command that ended with an exit status: under set -e a
\* status other than 0 ends the script with that status
AfterCommand(s, status, nextPc) ==
    IF status = 0 THEN [s EXCEPT !.pc = nextPc]
    ELSE [s EXCEPT !.pc = "exited", !.status = status]

AfterLoopContinues(s) == AfterCommand(s, 0, "migrate")

\* the Python program after its loop: sys.exit(1)
AfterLoop(s) == AfterCommand(s, 1, "migrate")

\* urlparse(os.environ['DATABASE_URL']) and the reading of its fields: an
\* exception here ends the Python program with status 1
ParseUrl(ok) ==
    /\ script.pc = "parse"
    /\ script' = IF ok THEN [script EXCEPT !.pc = "connect"]
                 ELSE AfterCommand(script, 1, "migrate")
    /\ UNCHANGED << hookVars, timeSlots, app, search, mount >>

\* one pass of the loop body: psycopg2.connect succeeds (sys.exit(0)), raises
\* OperationalError (caught: sleep follows), or raises something else
\* (uncaught: the Python program ends with status 1)
Connect(outcome) ==
    /\ script.pc = "connect"
    /\ LET tried == [script EXCEPT !.attempts = @ + 1]
       IN  script' =
               CASE outcome = "connected" ->
                      AfterCommand([tried EXCEPT !.connected = TRUE], 0, "migrate")
                 [] outcome = "OperationalError" -> [tried EXCEPT !.pc = "sleep"]
                 [] OTHER -> AfterCommand(tried, 1, "migrate")
    /\ UNCHANGED << hookVars, timeSlots, app, search, mount >>

\* time.sleep(2) returns: the next pass of the loop, or the end of the loop
Sleep ==
    /\ script.pc = "sleep"
    /\ script' = IF script.attempts < MAX_ATTEMPTS
                 THEN [script EXCEPT !.pc = "connect"]
                 ELSE AfterLoop(script)
    /\ UNCHANGED << hookVars, timeSlots, app, search, mount >>

\* python manage.py migrate --noinput
Migrate(ok) ==
    /\ script.pc = "migrate"
    /\ script' = AfterCommand([script EXCEPT !.ran = Append(@, "migrate")],
                              IF ok THEN 0 ELSE 1, "createsuperuser")
    /\ UNCHANGED << hookVars, timeSlots, app, search, mount >>

\* python manage.py createsuperuser --noinput || true
CreateSuperuser(ok) ==
    /\ script.pc = "createsuperuser"
    /\ script' = AfterCommand([script EXCEPT !.ran = Append(@, "createsuperuser")],
                              0, "loaddata")
    /\ UNCHANGED << hookVars, timeSlots, app, search, mount >>

\* python manage.py loaddata api/fixtures/studio_fixtures.json
LoadData(ok) ==
    /\ script.pc = "loaddata"
    /\ script' = AfterCommand([script EXCEPT !.ran = Append(@, "loaddata")],
                              IF ok THEN 0 ELSE 1, "collectstatic")
    /\ UNCHANGED << hookVars, timeSlots, app, search, mount >>

\* python manage.py collectstatic --noinput, and the end of the script
CollectStatic(ok) ==
    /\ script.pc = "collectstatic"
    /\ script' = IF ok
                 THEN [script EXCEPT !.ran = Append(@, "collectstatic"),
                                     !.pc = "exited", !.status = 0]
                 ELSE AfterCommand([script EXCEPT !.ran = Append(@, "collectstatic")],
                                   1, "exited")
    /\ UNCHANGED << hookVars, timeSlots, app, search, mount >>

NextStartup ==
    \/ \E ok \in BOOLEAN : ParseUrl(ok)
    \/ \E outcome \in {"connected", "OperationalError", "otherError"} : Connect(outcome)
    \/ Sleep
    \/ \E ok \in BOOLEAN : Migrate(ok)
    \/ \E ok \in BOOLEAN : CreateSuperuser(ok)
    \/ \E ok \in BOOLEAN : LoadData(ok)
    \/ \E ok \in BOOLEAN : CollectStatic(ok)

StartupSpec == Init /\ [][NextStartup]_vars

\* every issued request settles and every timer fires: as long as one of them
\* is outstanding, one of them is eventually served
FairSpec == Spec /\ WF_vars(Settle)

(***************************************************************************)
(* Properties.                                                             *)
(***************************************************************************)
\* the run whose state the hook reports
Current == Len(run)

\* how often onProgress was called for the k-th studio of run r
Delivered(r, k) ==
    Cardinality({ j \in 1..Len(outcomes) : outcomes[j].run = r /\ outcomes[j].index = k })

Failed(o) == Has(o.result, "error")

\* what the server said about the studio of outcome o, as a StudioAvailability
ServerSaid(o) ==
    LET studio == run[o.run].studios[o.index]
    IN  [studioId |-> studio.id, studioName |-> studio.name,
         availableRanges |-> IF o.kind = "ok" THEN << Slot >> ELSE << >>]

\* C1: when a run has completed, onProgress has been called exactly once for
\* each studio of its list and for nothing else, and a run that was never
\* restarted has put exactly N entries in the result list.
C1_Completeness ==
    \A r \in 1..Len(run) :
        run[r].pc = "done" =>
            /\ \A k \in 1..Len(run[r].studios) : Delivered(r, k) = 1
            /\ \A j \in 1..Len(outcomes) :
                   outcomes[j].run = r => outcomes[j].index \in 1..Len(run[r].studios)
            /\ Len(run) = 1 => Len(availabilityData) = Len(run[r].studios)

C1_Witness ==
    /\ Len(run) = 1
    /\ run[1].pc = "done"
    /\ Len(run[1].studios) = MaxStudios
    /\ \E j \in 1..Len(outcomes) : Failed(outcomes[j])

\* C2: the reported state holds nothing that a run other than the current one
\* recorded.
C2_StaleRunDiscard ==
    \A j \in 1..Len(recordedBy) : recordedBy[j] = Current

\* C3: no run ever rejects; a run that completes has had every studio's
\* request answered, whatever failed before; and every well-formed success of
\* the current run is in the result list exactly as the server sent it.
C3_Isolation ==
    /\ \A r \in 1..Len(run) : run[r].pc # "rejected"
    /\ \A r \in 1..Len(run) :
           run[r].pc = "done" => \A k \in 1..Len(run[r].studios) : Delivered(r, k) >= 1
    /\ \A j \in 1..Len(outcomes) :
           LET o == outcomes[j]
           IN  (o.run = Current /\ o.kind \in GoodKinds) =>
                   /\ ~Failed(o)
                   /\ o.result.data = ServerSaid(o)
                   /\ \E i \in 1..Len(availabilityData) :
                          availabilityData[i] = ServerSaid(o) /\ recordedBy[i] = o.run

\* a failure and a success of the same run, in both orders
C3_Witness ==
    \E a, b, c \in 1..Len(outcomes) :
        /\ a < b /\ b < c
        /\ outcomes[a].run = Current /\ outcomes[b].run = Current
        /\ outcomes[c].run = Current
        /\ outcomes[a].kind \in GoodKinds /\ Failed(outcomes[b])
        /\ outcomes[c].kind \in GoodKinds

\* C4: when the current run has completed, the progress is exactly 100.
C4_ProgressHundred ==
    (Len(run) > 0 /\ run[Current].pc = "done") => progress = Hundred

\* C4, for a hook whose effect ran once: when that run has completed, the
\* progress is exactly 100 (1 to MaxStudios studios).
C4_SingleRunHundred ==
    (Len(run) = 1 /\ run[1].pc = "done") => progress = Hundred

\* C5: the outcome of a request the server answered with a structured error
\* payload carries the server's message and code.
C5_ServerErrorVerbatim ==
    \A j \in 1..Len(outcomes) :
        outcomes[j].kind = "serverError" =>
            /\ Failed(outcomes[j])
            /\ outcomes[j].result.error.message = ServerErrorMessage
            /\ outcomes[j].result.error.code = ServerErrorCode

\* C6: a request without response (network failure, timeout) yields a failed
\* outcome for its own studio with the connection-failure message, which the
\* error map holds under that studio's id when it is recorded; no outcome of
\* another kind of answer carries that message, and the map holds the message
\* only for studios whose request got no response.
C6_ConnectionFailure ==
    LET Lost == {"noResponse", "timeout"}
    IN  /\ \A j \in 1..Len(outcomes) :
               LET o == outcomes[j]
               IN  IF o.kind \in Lost
                   THEN /\ Failed(o)
                        /\ o.result.error.message = MSG_CONNECT_FAILED
                        /\ o.result.data.studioId = run[o.run].studios[o.index].id
                        /\ o.result.data.availableRanges = << >>
                   ELSE ~(Failed(o) /\ o.result.error.message = MSG_CONNECT_FAILED)
        /\ \A s \in DOMAIN errors :
               errors[s] = MSG_CONNECT_FAILED =>
                   \E j \in 1..Len(outcomes) :
                       /\ outcomes[j].kind \in Lost
                       /\ run[outcomes[j].run].studios[outcomes[j].index].id = s
        /\ (Len(recordedBy) > 0 /\ outcomes[Len(outcomes)].kind \in Lost) =>
               LET o == outcomes[Len(outcomes)]
               IN  /\ o.result.data.studioId \in DOMAIN errors
                   /\ errors[o.result.data.studioId] = MSG_CONNECT_FAILED

\* a timed-out studio and a succeeding one in the same completed run
C6_Witness ==
    \E a, b \in 1..Len(outcomes) :
        /\ outcomes[a].run = outcomes[b].run
        /\ run[outcomes[a].run].pc = "done"
        /\ outcomes[a].kind = "timeout"
        /\ outcomes[b].kind \in GoodKinds /\ ~Failed(outcomes[b])
        /\ errors[outcomes[a].result.data.studioId] = MSG_CONNECT_FAILED

\* C7: a response with a malformed body is recorded as a failed outcome.
C7_MalformedIsFailed ==
    \A j \in 1..Len(outcomes) :
        outcomes[j].kind \in {"noData", "emptyData"} => Failed(outcomes[j])

C9_BatchesSequential ==
    \A r \in 1..Len(run) :
        LET me == run[r]
            n  == Len(me.studios)
        IN  /\ Cardinality(me.pending) <= BATCH_SIZE
            /\ me.pending \subseteq BatchOf(me.i, n)
            /\ \A k \in 1..n :
                   /\ k <= me.i => Delivered(r, k) = 1
                   /\ k > me.i + BATCH_SIZE => Delivered(r, k) = 0
                   /\ k \in me.pending => Delivered(r, k) = 0

\* the third batch of a run is in flight
C9_Witness ==
    \E r \in 1..Len(run) :
        /\ run[r].i = 2 * BATCH_SIZE
        /\ run[r].pending # {}
        /\ Len(run[r].studios) > 3 * BATCH_SIZE

\* C10: a run sleeps FETCH_DELAY once after each batch but the last: while it
\* sleeps, the batch before is fully settled, nothing is in flight and a batch
\* is still to come; the sleeps made so far are one per batch left behind; a
\* completed run has made ceil(N/B) - 1 of them.
C10_DelayBetweenBatches ==
    \A r \in 1..Len(run) :
        LET me      == run[r]
            n       == Len(me.studios)
            batches == (n + BATCH_SIZE - 1) \div BATCH_SIZE
        IN  /\ me.pc = "sleeping" =>
                   /\ me.timer = FETCH_DELAY
                   /\ me.pending = {}
                   /\ me.i + BATCH_SIZE < n
                   /\ \A k \in 1..n : k <= me.i + BATCH_SIZE => Delivered(r, k) = 1
                   /\ me.sleeps = (me.i \div BATCH_SIZE) + 1
            /\ me.pc = "awaiting" => me.timer = 0 /\ me.sleeps = me.i \div BATCH_SIZE
            /\ me.pc = "done" => me.timer = 0 /\ me.sleeps = batches - 1

\* three batches, two delays
C10_Witness ==
    \E r \in 1..Len(run) :
        /\ Len(run[r].studios) = 3 * BATCH_SIZE
        /\ run[r].pc = "done"
        /\ run[r].sleeps = 2

\* how many requests run r has issued for the k-th studio of its list
Requested(r, k) ==
    Cardinality({ j \in 1..Len(run[r].requests) : run[r].requests[j] = k })

\* C11: a run issues at most one request per studio of its list and none for
\* anything else; every request issued is in flight or has its one outcome; a
\* studio whose request failed is not requested again; a completed run has
\* issued exactly one request per studio.
C11_OneRequestPerStudio ==
    \A r \in 1..Len(run) :
        LET me == run[r]
            n  == Len(me.studios)
        IN  /\ \A j \in 1..Len(me.requests) : me.requests[j] \in 1..n
            /\ \A k \in 1..n :
                   /\ Requested(r, k) <= 1
                   /\ Requested(r, k) = Delivered(r, k) + (IF k \in me.pending THEN 1 ELSE 0)
                   /\ me.pc = "done" => Requested(r, k) = 1
            /\ \A j \in 1..Len(outcomes) :
                   (outcomes[j].run = r /\ Failed(outcomes[j])) =>
                       outcomes[j].index \notin me.pending

\* a run went on to its third request after its first two had failed
C11_Witness ==
    \E r \in 1..Len(run) :
        /\ Len(run[r].requests) = 3
        /\ \E a, b \in 1..Len(outcomes) :
               /\ a # b
               /\ outcomes[a].run = r /\ outcomes[b].run = r
               /\ Failed(outcomes[a]) /\ Failed(outcomes[b])

\* C12: with a batch size above 1, every outcome is in the reported state from
\* the step in which its request settled, in the order of settling, whether
\* or not requests of the same batch are still in flight (the result list is
\* exactly the outcomes since the current run started, a failure is in the
\* error map); and a run has requested nothing beyond its batch before all
\* requests of the batch have settled: it sleeps and goes on only then.
C12_ReportedAsResolved ==
    /\ batchSize > 1
    /\ Len(run) > 0 =>
           LET s == run[Current].startedAt
           IN  /\ Len(availabilityData) = Len(outcomes) - s
               /\ \A j \in 1..Len(availabilityData) :
                      availabilityData[j] = outcomes[s + j].result.data
               /\ \A j \in (s + 1)..Len(outcomes) :
                      Failed(outcomes[j]) =>
                          outcomes[j].result.data.studioId \in DOMAIN errors
    /\ \A r \in 1..Len(run) :
           LET me == run[r]
               n  == Len(me.studios)
           IN  /\ \A k \in 1..n :
                      /\ k <= me.i => Delivered(r, k) = 1
                      /\ k > me.i + batchSize => Requested(r, k) = 0
               /\ me.pc \in {"sleeping", "done"} =>
                      /\ me.pending = {}
                      /\ \A k \in 1..n : k <= me.i + batchSize => Delivered(r, k) = 1

\* the second request of a batch settled first and failed; its outcome is
\* reported while the first request is still in flight
C12_Witness ==
    /\ Len(run) = 1
    /\ run[1].pending = {1}
    /\ run[1].i = 0
    /\ Len(availabilityData) = 1
    /\ Len(outcomes) = 1
    /\ outcomes[1].index = 2
    /\ Failed(outcomes[1])
    /\ availabilityData[1].studioId = run[1].studios[2].id

\* run r had all its outcomes among the first at outcomes
RunOver(r, at) ==
    \A k \in 1..Len(run[r].studios) :
        \E j \in 1..at : outcomes[j].run = r /\ outcomes[j].index = k

\* the outcome of run r for the k-th studio of its list
OutcomeOf(r, k) ==
    outcomes[CHOOSE j \in 1..Len(outcomes) : outcomes[j].run = r /\ outcomes[j].index = k]

\* C13: when a run with the list of an earlier run has completed, every run
\* before it was over when it started, and the backend answered each studio
\* as it did in the earlier run, then the two runs have the same outcome for
\* every studio, and the reported state holds exactly the later run's
\* outcomes: one list entry per studio and the error map of its failures.
C13_IdempotentRerun ==
    \A r1, r2 \in 1..Len(run) :
        LET n == Len(run[r2].studios)
        IN  ( /\ r1 < r2
              /\ run[r1].studios = run[r2].studios
              /\ run[r2].pc = "done"
              /\ \A r \in 1..(r2 - 1) : RunOver(r, run[r2].startedAt)
              /\ \A k \in 1..n : OutcomeOf(r1, k).kind = OutcomeOf(r2, k).kind )
            => /\ \A k \in 1..n : OutcomeOf(r1, k).result = OutcomeOf(r2, k).result
               /\ r2 = Current =>
                      /\ Len(availabilityData) = n
                      /\ { availabilityData[j] : j \in 1..n }
                             = { OutcomeOf(r1, k).result.data : k \in 1..n }
                      /\ DOMAIN errors
                             = { run[r1].studios[k].id : k \in { m \in 1..n : Failed(OutcomeOf(r1, m)) } }
                      /\ \A k \in 1..n :
                             Failed(OutcomeOf(r1, k)) =>
                                 errors[run[r1].studios[k].id] = OutcomeOf(r1, k).result.error.message

\* the same list was run twice, one run after the other, and failed both times
C13_Witness ==
    /\ Len(run) = 2
    /\ run[1].studios = run[2].studios
    /\ run[2].pc = "done"
    /\ RunOver(1, run[2].startedAt)
    /\ Failed(OutcomeOf(1, 1)) /\ OutcomeOf(2, 1).kind = OutcomeOf(1, 1).kind
    /\ DOMAIN errors = { run[2].studios[1].id }

\* C14: the step that starts a run leaves the result list and the error map
\* empty, the progress 0 and loading true; and the reported state holds
\* nothing of a run that was over when the current run started: every list
\* entry and every key of the error map comes from an outcome that arrived
\* after that start.
C14_ResetAtStart ==
    /\ [][Len(run') = Len(run) + 1 =>
             /\ availabilityData' = << >>
             /\ errors' = << >>
             /\ progress' = NumZero
             /\ loading' = TRUE
             /\ run'[Len(run')].startedAt = Len(outcomes')]_vars
    /\ [](Len(run) > 0 =>
             LET s == run[Current].startedAt
             IN  /\ Len(availabilityData) = Len(outcomes) - s
                 /\ \A j \in 1..Len(recordedBy) : ~RunOver(recordedBy[j], s)
                 /\ \A id \in DOMAIN errors :
                        \E j \in (s + 1)..Len(outcomes) :
                            /\ Failed(outcomes[j])
                            /\ outcomes[j].result.data.studioId = id
                            /\ ~RunOver(outcomes[j].run, s))

\* a run has just started after a run that completed with a failure
C14_Witness ==
    /\ Len(run) = 2
    /\ RunOver(1, run[2].startedAt)
    /\ Len(outcomes) = run[2].startedAt
    /\ \E j \in 1..Len(outcomes) : Failed(outcomes[j])
    /\ run[2].pending # {}
    /\ errors = << >> /\ availabilityData = << >>

\* the slots of a list that are in the same room as its i-th slot: the same
\* room name, or none
SameRoom(ranges, i) ==
    { j \in 1..Len(ranges) :
          /\ Has(ranges[j], "roomName") = Has(ranges[i], "roomName")
          /\ Has(ranges[i], "roomName") => ranges[j].roomName = ranges[i].roomName }

\* the rooms of a list, each as the set of the positions of its slots
Rooms(ranges) == { SameRoom(ranges, i) : i \in 1..Len(ranges) }

\* the position in the list of the first slot of a room
FirstOf(room) == CHOOSE i \in room : \A j \in room : i <= j

\* the slots of a room as "{start}~{end}", in the order of the list
Shown(ranges, room) ==
    [p \in 1..Cardinality(room) |->
        LET i == CHOOSE i \in room : Cardinality({ j \in room : j < i }) = p - 1
        IN  ranges[i].start \o "~" \o ranges[i].end]

\* group g of the output is the group of the room: it lists the slots of the
\* room, under the room's name when the room has a name that is not empty
GroupOf(g, ranges, room) ==
    LET first == ranges[FirstOf(room)]
    IN  /\ g.timeRanges = Shown(ranges, room)
        /\ (Has(first, "roomName") /\ first.roomName # << >>) => g.roomName = first.roomName

\* C15: the output has one group per room of the input, and the groups are in
\* the order in which the rooms first appear in the input.
C15_GroupsByFirstAppearance ==
    timeSlots.rendered =>
        LET ranges == timeSlots.availableRanges
            groups == timeSlots.groupedAvailabilities
        IN  /\ Len(groups) = Cardinality(Rooms(ranges))
            /\ \A g \in 1..Len(groups) :
                   \E room \in Rooms(ranges) :
                       /\ GroupOf(groups[g], ranges, room)
                       /\ Cardinality({ other \in Rooms(ranges) :
                                           FirstOf(other) < FirstOf(room) }) = g - 1

\* C16: the output is a partition of the input: it has one group per room,
\* each room's group lists exactly the slots of the room, each as
\* "{start}~{end}" and in the order of the input, so that every slot is shown
\* once; the empty list gives the empty list.
C16_PurePartition ==
    timeSlots.rendered =>
        LET ranges == timeSlots.availableRanges
            groups == timeSlots.groupedAvailabilities
            Total[g \in 0..Len(groups)] ==
                IF g = 0 THEN 0 ELSE Total[g - 1] + Len(groups[g].timeRanges)
        IN  /\ Len(groups) = Cardinality(Rooms(ranges))
            /\ Total[Len(groups)] = Len(ranges)
            /\ \A room \in Rooms(ranges) :
                   \E g \in 1..Len(groups) : GroupOf(groups[g], ranges, room)
            /\ \A g \in 1..Len(groups) :
                   \E room \in Rooms(ranges) : GroupOf(groups[g], ranges, room)
            /\ \A g, h \in 1..Len(groups) :
                   (g # h /\ groups[g].roomName # PLACEHOLDER) =>
                       groups[g].roomName # groups[h].roomName
            /\ ranges = << >> => groups = << >>

\* two slots of one room with a slot of another room between them
C16_Witness ==
    /\ timeSlots.rendered
    /\ Len(timeSlots.availableRanges) = 3
    /\ SameRoom(timeSlots.availableRanges, 1) = {1, 3}
    /\ timeSlots.availableRanges[1].start # timeSlots.availableRanges[3].start
    /\ Len(timeSlots.groupedAvailabilities) = 2
    /\ Len(timeSlots.groupedAvailabilities[1].timeRanges) = 2

\* C17: every slot whose roomName is empty or absent is shown in a group
\* named by the placeholder.
C17_PlaceholderName ==
    timeSlots.rendered =>
        LET ranges == timeSlots.availableRanges
            groups == timeSlots.groupedAvailabilities
        IN  \A i \in 1..Len(ranges) :
                (~Has(ranges[i], "roomName") \/ ranges[i].roomName = << >>) =>
                    \E g \in 1..Len(groups) :
                        /\ groups[g].roomName = PLACEHOLDER
                        /\ groups[g].timeRanges = Shown(ranges, SameRoom(ranges, i))

\* C17, for the empty string: every slot whose roomName is "" is shown in a
\* group named by the placeholder.
C17_EmptyNamePlaceholder ==
    timeSlots.rendered =>
        LET ranges == timeSlots.availableRanges
            groups == timeSlots.groupedAvailabilities
        IN  \A i \in 1..Len(ranges) :
                (Has(ranges[i], "roomName") /\ ranges[i].roomName = << >>) =>
                    \E g \in 1..Len(groups) :
                        /\ groups[g].roomName = PLACEHOLDER
                        /\ groups[g].timeRanges = Shown(ranges, SameRoom(ranges, i))

\* the badge an outcome calls for: fetch-failed when it is Failed, available
\* when it is Ok with at least one slot, full when it is Ok without slots
BadgeFor(o) ==
    IF Failed(o) THEN "fetch-failed"
    ELSE IF Has(o.result.data, "availableRanges") /\ Len(o.result.data.availableRanges) > 0
    THEN "available"
    ELSE "full"

\* C18: when the current run has completed, the card of each studio of its
\* list carries the badge that the studio's outcome in this run calls for.
C18_BadgeMatchesOutcome ==
    (Len(run) > 0 /\ run[Current].pc = "done" /\ ~loading) =>
        \A k \in 1..Len(run[Current].studios) :
            Badge(run[Current].studios[k]) = BadgeFor(OutcomeOf(Current, k))

\* C18, for a hook whose effect ran once: when that run has completed, the
\* card of each studio carries the badge its outcome calls for.
C18_SingleRunBadges ==
    (Len(run) = 1 /\ run[1].pc = "done" /\ ~loading) =>
        \A k \in 1..Len(run[1].studios) :
            Badge(run[1].studios[k]) = BadgeFor(OutcomeOf(1, k))

(***************************************************************************)
(* C19, C20: what the form hands to the results component.                 *)
(***************************************************************************)
\* the hour of a wall-clock time of timeOptions
HourOf(time) == IndexOf(timeOptions, time)

\* C19: every run of the effect is given a studio list with 1 to 5 entries,
\* whatever studios were selected and removed and whenever a search was
\* submitted or reset.
C19_OneToFiveStudios ==
    app.effect.mounted => Len(app.effect.studios) \in 1..MaxStudios

\* C19, the part that holds: no run is given more than 5 studios, and the run
\* that a submitted search starts is given at least one.
C19_AtMostFive ==
    app.effect.mounted => Len(app.effect.studios) <= MaxStudios

C19_SearchGivesStudios ==
    [][HandleSearch => Len(app'.effect.studios) \in 1..MaxStudios]_vars

\* C20: every run of the effect has a window with startTime < endTime and
\* endTime - startTime >= durationHours, also after the date, a time or the
\* duration is changed once a search was submitted.
C20_WindowOrdered ==
    app.effect.mounted =>
        /\ HourOf(app.effect.searchStartTime) < HourOf(app.effect.searchEndTime)
        /\ HourOf(app.effect.searchEndTime) - HourOf(app.effect.searchStartTime)
               >= app.effect.durationHours

\* C20, the part that holds: the run that a submitted search starts has such a
\* window.
C20_SearchGivesWindow ==
    [][HandleSearch =>
           /\ HourOf(app'.effect.searchStartTime) < HourOf(app'.effect.searchEndTime)
           /\ HourOf(app'.effect.searchEndTime) - HourOf(app'.effect.searchStartTime)
                  >= app'.effect.durationHours
           /\ app'.effect.durationHours >= 1]_vars

(***************************************************************************)
(* C21, C27, C28: the selection made through the search box.               *)
(***************************************************************************)
\* C21: the selected-studio list holds at most 5 entries, after any studios
\* were selected by click or by the Enter key, removed, or the search reset.
C21_AtMostFiveSelected == Len(app.selectedStudios) <= MaxStudios

\* five studios are selected, the fifth through the search box, while a
\* search that would offer a sixth is still shown in the input or in flight
C21_Witness ==
    /\ Len(app.selectedStudios) = MaxStudios
    /\ search.searchResults # << >>
    /\ \E j \in 1..Len(search.searchResults) :
           ~IsAlreadySelected(app.selectedStudios, search.searchResults[j])

\* C27: the selected-studio list never holds two studios with the same id,
\* also when a studio is chosen from results that were fetched before an
\* earlier selection.
C27_NoDuplicateStudios ==
    \A i, j \in 1..Len(app.selectedStudios) :
        app.selectedStudios[i].id = app.selectedStudios[j].id => i = j

\* the results shown offer a studio that is already selected (they answer a
\* search sent before it was selected)
C27_Witness ==
    /\ ResultsShown
    /\ \E j \in 1..Len(search.searchResults) :
           /\ IsAlreadySelected(app.selectedStudios, search.searchResults[j])
           /\ search.searchResults[j].id > 2

\* C28: the results shown answer the most recently sent query: the response
\* to an older query never replaces the results a newer query was answered
\* with, in whatever order the responses arrive.
C28_NewerNeverReplaced ==
    [][search'.resultsFor >= search.resultsFor]_vars

\* C28, the part that holds: a query shorter than 2 characters sends no
\* request, and clears and closes the results when its timer fires.
C28_ShortQueryClears ==
    [][(DebounceFires /\ Len(search.debounced.query) < 2) =>
           /\ search'.sent = search.sent
           /\ search'.inFlight = search.inFlight
           /\ search'.searchResults = << >>
           /\ ~search'.isSearchResultsOpen]_vars

(***************************************************************************)
(* C22: the search button.                                                 *)
(***************************************************************************)
\* C22: searchPerformed becomes true only when the date, both times and the
\* duration are set, a studio is selected, start < end and end - start is at
\* least the duration in hours; a press of the search button that fails one of
\* these checks changes no input and not searchPerformed, and starts no run.
C22_SearchOnlyWhenValid ==
    [][LET valid ==
               /\ app.selectedDate # NoDate
               /\ app.searchStartTime # ""
               /\ app.searchEndTime # ""
               /\ app.selectedDuration # << >>
               /\ Len(app.selectedStudios) >= 1
               /\ HourOf(app.searchStartTime) < HourOf(app.searchEndTime)
               /\ HourOf(app.searchEndTime) - HourOf(app.searchStartTime)
                      >= DurationHours(app.selectedDuration)
       IN  /\ (app'.searchPerformed /\ ~app.searchPerformed) => valid
           /\ (HandleSearch /\ valid) => app'.searchPerformed /\ app'.effect.mounted
           /\ (HandleSearch /\ ~valid) =>
                  /\ [app' EXCEPT !.alert = app.alert] = app
                  /\ app'.alert # NoAlert]_vars

\* the search button was pressed with every field set and start < end, but
\* with a range shorter than the duration: no search is performed
C22_Witness ==
    /\ app.alert = MSG_RANGE_TOO_SHORT
    /\ ~app.searchPerformed
    /\ ~app.effect.mounted

(***************************************************************************)
(* C23: the key of a recorded outcome.                                     *)
(***************************************************************************)
\* C23: every outcome handed to onProgress, Ok or Failed, carries the id of
\* the studio of the list whose request produced it.
C23_KeyedByRequestedStudio ==
    \A j \in 1..Len(outcomes) :
        outcomes[j].result.data.studioId = run[outcomes[j].run].studios[outcomes[j].index].id

\* C23, the part that holds: a Failed outcome, and an Ok outcome of a
\* well-formed response, carry the id of the studio that was requested.
C23_KeyedUnlessMalformed ==
    \A j \in 1..Len(outcomes) :
        (Failed(outcomes[j]) \/ outcomes[j].kind \in GoodKinds) =>
            outcomes[j].result.data.studioId
                = run[outcomes[j].run].studios[outcomes[j].index].id

(***************************************************************************)
(* C24, C25: loading and progress against the current run.                 *)
(***************************************************************************)
\* the outcomes run r has handed to onProgress
Recorded(r) == Cardinality({ j \in 1..Len(outcomes) : outcomes[j].run = r })

\* C24: whenever loading is false, every studio of the current run's list has
\* an outcome of the current run, and no request of the current run is
\* pending or still to be issued.
C24_LoadedMeansComplete ==
    (Len(run) > 0 /\ ~loading) =>
        /\ run[Current].pending = {}
        /\ \A k \in 1..Len(run[Current].studios) :
               Requested(Current, k) = 1 /\ Delivered(Current, k) = 1

\* C24, for a hook whose effect ran once: loading is false only when every
\* studio of the list has its outcome.
C24_SingleRunLoaded ==
    (Len(run) = 1 /\ ~loading) =>
        /\ run[1].pending = {}
        /\ \A k \in 1..Len(run[1].studios) : Requested(1, k) = 1 /\ Delivered(1, k) = 1

\* C25: in every state the progress is 100 * (outcomes recorded for the
\* current run) / N, a value between 0 and 100.
C25_ProgressOfCurrentRun ==
    IF Len(run) = 0 THEN progress = NumZero
    ELSE progress = NumDiv(100 * Recorded(Current), Len(run[Current].studios))

\* C25, for a hook whose effect ran once: the progress is the quotient
\* 100 * k / N of the k outcomes recorded, as a JS Number.
C25_SingleRunProgress ==
    Len(run) = 1 => progress = NumDiv(100 * Recorded(1), Len(run[1].studios))

(***************************************************************************)
(* C26: a search that is reset while requests are in flight.               *)
(***************************************************************************)
\* C26: after a reset and a new search, the results, the error map and the
\* progress of the new search hold nothing of the runs that were unmounted
\* by the reset, whenever their requests are answered.
C26_NothingOfResetSearch ==
    (mount.mounted /\ mount.discarded > 0) =>
        LET Live == { j \in 1..Len(outcomes) : outcomes[j].run > mount.discarded }
        IN  /\ \A i \in 1..Len(recordedBy) : recordedBy[i] > mount.discarded
            /\ \A s \in DOMAIN errors :
                   \E j \in Live : /\ Failed(outcomes[j])
                                   /\ outcomes[j].result.data.studioId = s
                                   /\ outcomes[j].result.error.message = errors[s]
            /\ Len(run) = mount.discarded + 1 =>
                   /\ Len(availabilityData) = Recorded(Current)
                   /\ progress = NumDiv(100 * Recorded(Current), Len(run[Current].studios))

\* a request of the search that was reset is answered with a failure after
\* the new search has started, and the new search has finished without error
C26_Witness ==
    /\ mount.mounted /\ mount.discarded = 1 /\ Len(run) = 2
    /\ run[2].pc = "done"
    /\ errors = << >>
    /\ \E j \in 1..Len(outcomes) :
           /\ outcomes[j].run = 1
           /\ j > run[2].startedAt
           /\ Failed(outcomes[j])

(***************************************************************************)
(* C29: the start-up script.                                               *)
(***************************************************************************)
\* C29: the migrations run only after a connection attempt has succeeded; at
\* most 30 attempts are made and none after the first success; when all 30
\* have failed the script exits with status 1 and has run no migration, no
\* fixture loading and no collectstatic.
C29_MigrateOnlyWhenConnected ==
    /\ [](/\ script.ran # << >> => script.connected
          /\ script.pc \in {"migrate", "createsuperuser", "loaddata", "collectstatic"}
                 => script.connected
          /\ script.attempts <= MAX_ATTEMPTS
          /\ (script.attempts = MAX_ATTEMPTS /\ ~script.connected) =>
                 /\ script.pc \in {"sleep", "exited"}
                 /\ script.ran = << >>
                 /\ script.pc = "exited" => script.status = 1)
    /\ [][script.connected => script'.attempts = script.attempts]_vars

\* all 30 attempts failed and the script has exited
C29_Witness ==
    /\ script.attempts = MAX_ATTEMPTS
    /\ ~script.connected
    /\ script.pc = "exited"
    /\ script.status = 1

====
